---- MODULE Spec2Model ----
(***************************************************************************)
(* CV extraction chain of backend/app/chains/cv_extraction.py: the empty   *)
(* input check, the retry loop of extract / extract_sync, the wrappers     *)
(* extract_with_confidence and extract_profile_from_cv, and the            *)
(* completeness score _calculate_confidence.                               *)
(*                                                                         *)
(* Spec      : one call of an entry point against an upstream chain whose  *)
(*             outcome at every attempt is chosen nondeterministically.    *)
(* SpecScore : _calculate_confidence applied to Profiles that grow by      *)
(*             populating optional fields and appending list entries.      *)
(* SpecPair  : two calls on one chain, interleaved or in sequence.         *)
(* SpecSort  : Profile.sort_by_date of backend/app/models/profile.py.      *)
(* SpecMatch : match_jobs of backend/app/routers/jobs.py.                  *)
(* SpecLive  : Spec with every enabled step of the call eventually taken.  *)
(* SpecHttp  : the routes of backend/main.py and of the two routers.       *)
(* SpecDb    : get_db of backend/app/db/database.py.                       *)
(* SpecEquiv : extract, then extract_sync on the same input and responses. *)
(***************************************************************************)
EXTENDS Integers, Sequences, FiniteSets, TLC

VARIABLES
    method,       \* entry point of the call in progress ("none" before it)
    cv_text,      \* the cv_text argument, a sequence of characters
    max_retries,  \* self.max_retries of the chain the call runs on
    pc,           \* position of the call
    attempt,      \* loop variable of `for attempt in range(self.max_retries)`
    calls,        \* number of chain.invoke / chain.ainvoke calls made
    history,      \* upstream outcome of every attempt of the call, in order
    extracted,    \* extract_with_confidence's local `profile`
    outcome,      \* how the call ended: pending, returned or raised
    profile,      \* SpecScore: the Profile being scored
    confidence,   \* SpecScore: _calculate_confidence(profile)
    call,         \* SpecPair: the state of each of two calls on one chain
    det,          \* SpecPair: the upstream is a deterministic stub
    memo,         \* SpecPair: the responses the stub has given, by prompt
    raw,          \* SpecSort: the lists handed to the Profile constructor
    built,        \* SpecSort: the lists of the constructed Profile
    request,      \* SpecMatch: the JobMatchRequest received
    response,     \* SpecMatch: the JobMatchResponse returned
    log,          \* SpecHttp: the requests served so far, each with its response
    db,           \* SpecHttp: what the application has done to the database
    use,          \* SpecDb: the state of each use of the get_db dependency
    first         \* SpecEquiv: the finished extract call the next call is compared to

xvars == <<method, cv_text, max_retries, pc, attempt, calls, history, extracted, outcome>>
svars == <<profile, confidence>>
pvars == <<call, det, memo>>
tvars == <<raw, built>>
mvars == <<request, response>>
hvars == <<log, db>>
dvars == <<use>>
evars == <<first>>
vars == <<method, cv_text, max_retries, pc, attempt, calls, history, extracted, outcome,
          profile, confidence, call, det, memo, raw, built, request, response,
          log, db, use, first>>

(***************************************************************************)
(* Bounds of the model.                                                    *)
(***************************************************************************)
MaxLen == 2
MaxRetries == 3
MaxWork == 2
MaxEdu == 1

DefaultMaxRetries == 2

(***************************************************************************)
(* Optional values: <<>> is None, <<v>> is the value v.                    *)
(***************************************************************************)
None == <<>>
Some(v) == <<v>>

\* Python truthiness of an Optional[str]: None and "" are falsy.
TruthyStr(o) == o # None /\ o[1] # ""

\* Python truthiness of an Optional[float]: None and 0.0 are falsy.
TruthyNum(o) == o # None /\ o[1] # 0

(***************************************************************************)
(* Profile records, with the fields _calculate_confidence reads.           *)
(***************************************************************************)
MkProfile(phone, city, linkedin, github, summary, work, edu, technical) ==
    [personal_info |-> [email |-> "a@b.c", phone |-> phone,
                        location |-> [city |-> city],
                        linkedin |-> linkedin, github |-> github, summary |-> summary],
     work_experience |-> work,
     education |-> edu,
     skills |-> [technical |-> technical]]

WorkExperience(responsibilities, achievements) ==
    [responsibilities |-> responsibilities, achievements |-> achievements]

Education(gpa) == [gpa |-> gpa]

\* A list of n equal items.
Repeat(x, n) == [i \in 1..n |-> x]

\* The Profile with only the required fields.
BaseProfile == MkProfile(None, None, None, None, None, <<>>, <<>>, <<>>)

\* A Profile with every scored field populated.
RichProfile ==
    MkProfile(Some("x"), Some("x"), Some("x"), Some("x"), Some("x"),
              <<WorkExperience(Repeat("r", 3), Repeat("a", 1)),
                WorkExperience(Repeat("r", 2), <<>>)>>,
              <<Education(Some(4))>>,
              Repeat("s", 10))

SampleProfiles == {BaseProfile, RichProfile}

(***************************************************************************)
(* _calculate_confidence                                                   *)
(***************************************************************************)
PersonalInfoPointsEitherLink(p) ==
    (IF p.personal_info.email # "" THEN 10 ELSE 0)
  + (IF TruthyStr(p.personal_info.phone) THEN 5 ELSE 0)
  + (IF TruthyStr(p.personal_info.location.city) THEN 5 ELSE 0)
  + (IF TruthyStr(p.personal_info.linkedin) # TruthyStr(p.personal_info.github)
       THEN 5 ELSE 0)
  + (IF TruthyStr(p.personal_info.summary) THEN 5 ELSE 0)

PersonalInfoPoints(p) ==
    (IF p.personal_info.email # "" THEN 10 ELSE 0)
  + (IF TruthyStr(p.personal_info.phone) THEN 5 ELSE 0)
  + (IF TruthyStr(p.personal_info.location.city) THEN 5 ELSE 0)
  + (IF TruthyStr(p.personal_info.linkedin) \/ TruthyStr(p.personal_info.github)
       THEN 5 ELSE 0)
  + (IF TruthyStr(p.personal_info.summary) THEN 5 ELSE 0)

WorkExperiencePointsPerEntry(p) ==
    LET we == p.work_experience IN
    IF we # <<>>
    THEN 15 * Len(we)
       + (IF Len(we) >= 2 THEN 5 ELSE 0)
       + (IF \E i \in 1..Len(we) : Len(we[i].responsibilities) >= 3 THEN 5 ELSE 0)
       + (IF \E i \in 1..Len(we) : we[i].achievements # <<>> THEN 5 ELSE 0)
    ELSE 0

WorkExperiencePoints(p) ==
    LET we == p.work_experience IN
    IF we # <<>>
    THEN 15
       + (IF Len(we) >= 2 THEN 5 ELSE 0)
       + (IF \E i \in 1..Len(we) : Len(we[i].responsibilities) >= 3 THEN 5 ELSE 0)
       + (IF \E i \in 1..Len(we) : we[i].achievements # <<>> THEN 5 ELSE 0)
    ELSE 0

EducationPointsDoubleBonus(p) ==
    LET ed == p.education IN
    IF ed # <<>>
    THEN 10
       + (IF Len(ed) >= 1 THEN 10 ELSE 0)
       + (IF \E i \in 1..Len(ed) : TruthyNum(ed[i].gpa) THEN 5 ELSE 0)
    ELSE 0

EducationPoints(p) ==
    LET ed == p.education IN
    IF ed # <<>>
    THEN 10
       + (IF Len(ed) >= 1 THEN 5 ELSE 0)
       + (IF \E i \in 1..Len(ed) : TruthyNum(ed[i].gpa) THEN 5 ELSE 0)
    ELSE 0

SkillsPointsStrict(p) ==
    LET t == p.skills.technical IN
    IF t # <<>>
    THEN 10
       + (IF Len(t) > 5 THEN 5 ELSE 0)
       + (IF Len(t) > 10 THEN 5 ELSE 0)
    ELSE 0

SkillsPoints(p) ==
    LET t == p.skills.technical IN
    IF t # <<>>
    THEN 10
       + (IF Len(t) >= 5 THEN 5 ELSE 0)
       + (IF Len(t) >= 10 THEN 5 ELSE 0)
    ELSE 0

\* The local `score` at the return statement.
Score(p) == 0 + PersonalInfoPoints(p) + WorkExperiencePoints(p)
              + EducationPoints(p) + SkillsPoints(p)

\* The local `max_score` at the return statement.
MaxScoreTotal == 0 + 30 + 30 + 20 + 20

\* A score is the fraction num / den.
Frac(n, d) == [num |-> n, den |-> d]
FracLeq(a, b) == a.num * b.den <= b.num * a.den

\* min(score / max_score, 1.0) if max_score > 0 else 0.0
CalculateConfidence(p) ==
    LET score == Score(p)
        max_score == MaxScoreTotal
    IN IF max_score > 0
       THEN IF FracLeq(Frac(score, max_score), Frac(1, 1))
            THEN Frac(score, max_score)
            ELSE Frac(1, 1)
       ELSE Frac(0, 1)

(***************************************************************************)
(* Input text and the empty-input test.                                    *)
(***************************************************************************)
Whitespace == {" ", "\t", "\n"}
Chars == {" ", "\n", "a"}
Texts == UNION {[1..n -> Chars] : n \in 0..MaxLen}

RECURSIVE LStrip(_)
LStrip(s) == IF s # <<>> /\ Head(s) \in Whitespace THEN LStrip(Tail(s)) ELSE s

RECURSIVE RStrip(_)
RStrip(s) ==
    IF s # <<>> /\ s[Len(s)] \in Whitespace THEN RStrip(SubSeq(s, 1, Len(s) - 1)) ELSE s

\* str.strip()
Strip(s) == RStrip(LStrip(s))

IsEmptyInputNoStrip(text) == text = <<>>

\* `not cv_text or not cv_text.strip()`
IsEmptyInput(text) == text = <<>> \/ Strip(text) = <<>>

(***************************************************************************)
(* How a call ends.                                                        *)
(***************************************************************************)
Pending == [status |-> "pending"]
Returned(v) == [status |-> "returned", value |-> v]
Raised(type, text) == [status |-> "raised", type |-> type, text |-> text]

\* raise ValueError("CV text cannot be empty")
EmptyInputError == Raised("ValueError", <<"CV text cannot be empty">>)

ParseFailureErrorNoCause(mr, e) ==
    Raised("ValueError", <<"Failed to parse CV after ", mr, " attempts: ", "">>)

\* raise ValueError(f"Failed to parse CV after {self.max_retries} attempts: {e}")
ParseFailureError(mr, e) ==
    Raised("ValueError", <<"Failed to parse CV after ", mr, " attempts: ", e.msg>>)

\* raise ValueError(f"CV extraction failed after {self.max_retries} attempts: {e}")
ExtractionFailureError(mr, e) ==
    Raised("ValueError", <<"CV extraction failed after ", mr, " attempts: ", e.msg>>)

(***************************************************************************)
(* The upstream chain (prompt | llm | parser): at each invocation it       *)
(* returns a Profile, raises OutputParserException (the response does not  *)
(* parse into the Profile schema), raises another Exception (the call      *)
(* failed), or returns an object that is not a Profile.                    *)
(***************************************************************************)
Msgs == {"m1", "m2"}

UpstreamOutcomes ==
    [kind : {"profile"}, value : SampleProfiles]
      \cup [kind : {"raise"}, exc : {"OutputParserException", "Exception"}, msg : Msgs]
      \cup {[kind |-> "object", type |-> "dict"]}

FailedEvenWithProfile(o) == TRUE

\* isinstance(result, Profile) is false, or the invocation raised.
Failed(o) == o.kind # "profile"

CaughtAsParserException(o) ==
    IF o.kind = "raise"
    THEN [exc |-> o.exc, msg |-> o.msg]
    ELSE [exc |-> "OutputParserException",
          msg |-> "Expected Profile object, got <class 'dict'>"]

\* The exception an attempt with upstream outcome o raises inside the try block.
Caught(o) ==
    IF o.kind = "raise"
    THEN [exc |-> o.exc, msg |-> o.msg]
    ELSE [exc |-> "ValueError", msg |-> "Expected Profile object, got <class 'dict'>"]

IsParserExceptionNever(e) == FALSE

\* `except OutputParserException as e` is tried before `except Exception as e`.
IsParserException(e) == e.exc = "OutputParserException"

IsLastAttemptFirst(a, mr) == a = 0

IsLastAttemptOneMore(a, mr) == a = mr

IsLastAttemptNever(a, mr) == FALSE

\* `if attempt == self.max_retries - 1`
IsLastAttempt(a, mr) == a = mr - 1

RetryValues == (0 - 1)..MaxRetries

(***************************************************************************)
(* The variables of a specification that is not running stay at rest.      *)
(***************************************************************************)
Calls == {1, 2}

NoCall ==
    [method |-> "none", cv_text |-> <<>>, pc |-> "idle", attempt |-> 0, calls |-> 0,
     history |-> <<>>, extracted |-> None, outcome |-> Pending]

ScoreAtRest == profile = BaseProfile /\ confidence = CalculateConfidence(BaseProfile)
PairAtRest == call = [i \in Calls |-> NoCall] /\ det = FALSE /\ memo = {}
SortAtRest == raw = None /\ built = None
MatchAtRest == request = None /\ response = None

\* No session has been opened, no statement executed, nothing committed.
NoDatabaseUse == [sessions |-> 0, statements |-> 0, commits |-> 0]

HttpAtRest == log = <<>> /\ db = NoDatabaseUse

Uses == {1, 2}

\* get_db has not been called for this use.
NoUse == [pc |-> "idle", trace |-> <<>>, exc |-> None, result |-> Pending]

DbAtRest == use = [i \in Uses |-> NoUse]
EquivAtRest == first = None

CallAtRest ==
    /\ method = "none"
    /\ cv_text = <<>>
    /\ attempt = 0
    /\ calls = 0
    /\ history = <<>>
    /\ extracted = None
    /\ outcome = Pending

(***************************************************************************)
(* Entry points.  A call starts with the empty-input check; an input that  *)
(* passes it enters the retry loop.                                        *)
(***************************************************************************)
Enter(m, text, mr, loop) ==
    /\ pc = "idle"
    /\ method' = m
    /\ cv_text' = text
    /\ max_retries' = mr
    /\ attempt' = 0
    /\ IF IsEmptyInput(text)
       THEN pc' = "done" /\ outcome' = EmptyInputError
       ELSE pc' = loop /\ outcome' = Pending
    /\ UNCHANGED <<calls, history, extracted, svars, pvars, tvars, mvars, hvars, dvars, evars>>

\* async def extract(self, cv_text)
CallExtract(text) == Enter("extract", text, max_retries, "extract")

\* def extract_sync(self, cv_text)
CallExtractSync(text) == Enter("extract_sync", text, max_retries, "extract_sync")

\* def extract_with_confidence(self, cv_text): profile = self.extract_sync(cv_text)
CallExtractWithConfidence(text) ==
    Enter("extract_with_confidence", text, max_retries, "extract_sync")

\* def extract_profile_from_cv(cv_text, **kwargs):
\*     chain = CVExtractionChain(**kwargs); return chain.extract_sync(cv_text)
CallExtractProfileFromCv(text, mr) ==
    Enter("extract_profile_from_cv", text, mr, "extract_sync")

(***************************************************************************)
(* One iteration of the retry loop of extract.                             *)
(***************************************************************************)
ExtractAttempt(o) ==
    /\ pc = "extract"
    /\ attempt < max_retries
    /\ calls' = calls + 1
    /\ history' = Append(history, o)
    /\ IF ~Failed(o)
       THEN /\ pc' = "done"
            /\ outcome' = Returned(Some(o.value))
            /\ UNCHANGED attempt
       ELSE LET e == Caught(o) IN
            IF IsParserException(e)
            THEN IF IsLastAttempt(attempt, max_retries)
                 THEN /\ pc' = "done"
                      /\ outcome' = ParseFailureError(max_retries, e)
                      /\ UNCHANGED attempt
                 ELSE /\ attempt' = attempt + 1
                      /\ UNCHANGED <<pc, outcome>>
            ELSE IF IsLastAttempt(attempt, max_retries)
                 THEN /\ pc' = "done"
                      /\ outcome' = ExtractionFailureError(max_retries, e)
                      /\ UNCHANGED attempt
                 ELSE /\ attempt' = attempt + 1
                      /\ UNCHANGED <<pc, outcome>>
    /\ UNCHANGED <<method, cv_text, max_retries, extracted, svars, pvars, tvars, mvars, hvars, dvars, evars>>

\* range(self.max_retries) is exhausted: the function body ends, returning None.
ExtractLoopExit ==
    /\ pc = "extract"
    /\ ~(attempt < max_retries)
    /\ pc' = "done"
    /\ outcome' = Returned(None)
    /\ UNCHANGED <<method, cv_text, max_retries, attempt, calls, history, extracted, svars, pvars, tvars, mvars, hvars, dvars, evars>>

(***************************************************************************)
(* extract_sync, also as called by the two wrappers.  Its return value v   *)
(* goes to the caller, or to extract_with_confidence's local `profile`.    *)
(***************************************************************************)
SyncReturnNothing(v) == pc' = "done" /\ outcome' = Returned(None) /\ UNCHANGED extracted

SyncReturn(v) ==
    IF method = "extract_with_confidence"
    THEN pc' = "confidence" /\ extracted' = v /\ UNCHANGED outcome
    ELSE pc' = "done" /\ outcome' = Returned(v) /\ UNCHANGED extracted

ExtractSyncAttempt(o) ==
    /\ pc = "extract_sync"
    /\ attempt < max_retries
    /\ calls' = calls + 1
    /\ history' = Append(history, o)
    /\ IF ~Failed(o)
       THEN /\ SyncReturn(Some(o.value))
            /\ UNCHANGED attempt
       ELSE LET e == Caught(o) IN
            IF IsParserException(e)
            THEN IF IsLastAttempt(attempt, max_retries)
                 THEN /\ pc' = "done"
                      /\ outcome' = ParseFailureError(max_retries, e)
                      /\ UNCHANGED <<attempt, extracted>>
                 ELSE /\ attempt' = attempt + 1
                      /\ UNCHANGED <<pc, outcome, extracted>>
            ELSE IF IsLastAttempt(attempt, max_retries)
                 THEN /\ pc' = "done"
                      /\ outcome' = ExtractionFailureError(max_retries, e)
                      /\ UNCHANGED <<attempt, extracted>>
                 ELSE /\ attempt' = attempt + 1
                      /\ UNCHANGED <<pc, outcome, extracted>>
    /\ UNCHANGED <<method, cv_text, max_retries, svars, pvars, tvars, mvars, hvars, dvars, evars>>

ExtractSyncLoopExit ==
    /\ pc = "extract_sync"
    /\ ~(attempt < max_retries)
    /\ SyncReturn(None)
    /\ UNCHANGED <<method, cv_text, max_retries, attempt, calls, history, svars, pvars, tvars, mvars, hvars, dvars, evars>>

\* confidence = self._calculate_confidence(profile); return profile, confidence
\* (profile.personal_info of None raises AttributeError)
WithConfidenceScore ==
    /\ pc = "confidence"
    /\ pc' = "done"
    /\ IF extracted = None
       THEN outcome' = Raised("AttributeError",
                              <<"'NoneType' object has no attribute 'personal_info'">>)
       ELSE outcome' = Returned(<<extracted[1], CalculateConfidence(extracted[1])>>)
    /\ UNCHANGED <<method, cv_text, max_retries, attempt, calls, history, extracted, svars, pvars, tvars, mvars, hvars, dvars, evars>>

Init ==
    /\ method = "none"
    /\ cv_text = <<>>
    /\ max_retries \in RetryValues
    /\ pc = "idle"
    /\ attempt = 0
    /\ calls = 0
    /\ history = <<>>
    /\ extracted = None
    /\ outcome = Pending
    /\ profile = BaseProfile
    /\ confidence = CalculateConfidence(BaseProfile)
    /\ PairAtRest
    /\ SortAtRest
    /\ MatchAtRest
    /\ HttpAtRest
    /\ DbAtRest
    /\ EquivAtRest

Next ==
    \/ \E text \in Texts : CallExtract(text)
    \/ \E text \in Texts : CallExtractSync(text)
    \/ \E text \in Texts : CallExtractWithConfidence(text)
    \/ \E text \in Texts, mr \in RetryValues \cup {DefaultMaxRetries} :
          CallExtractProfileFromCv(text, mr)
    \/ \E o \in UpstreamOutcomes : ExtractAttempt(o)
    \/ ExtractLoopExit
    \/ \E o \in UpstreamOutcomes : ExtractSyncAttempt(o)
    \/ ExtractSyncLoopExit
    \/ WithConfidenceScore

Spec == Init /\ [][Next]_vars

\* Every upstream call returns or raises, and the code between two calls runs
\* on: a step that can be taken is taken.
SpecLive == Init /\ [][Next]_vars /\ WF_vars(Next)

(***************************************************************************)
(* SpecScore: Profiles related by populating an empty optional field or    *)
(* appending list entries, each scored by _calculate_confidence.  The      *)
(* empty string is tried on phone; the other optional strings go through   *)
(* the same truthiness test.                                               *)
(***************************************************************************)
RespLens == {2, 3}
SkillLens == {0, 1, 5, 9, 10}
WorkEntries ==
    {WorkExperience(Repeat("r", n), Repeat("a", m)) : n \in RespLens, m \in {0, 1}}
EducationEntries == {Education(None), Education(Some(0)), Education(Some(4))}

Rescore(q) ==
    /\ profile' = q
    /\ confidence' = CalculateConfidence(q)
    /\ UNCHANGED <<xvars, pvars, tvars, mvars, hvars, dvars, evars>>

PopulatePhone(v) ==
    /\ pc = "score"
    /\ profile.personal_info.phone = None
    /\ Rescore([profile EXCEPT !.personal_info.phone = Some(v)])

PopulateCity(v) ==
    /\ pc = "score"
    /\ profile.personal_info.location.city = None
    /\ Rescore([profile EXCEPT !.personal_info.location.city = Some(v)])

PopulateLinkedin(v) ==
    /\ pc = "score"
    /\ profile.personal_info.linkedin = None
    /\ Rescore([profile EXCEPT !.personal_info.linkedin = Some(v)])

PopulateGithub(v) ==
    /\ pc = "score"
    /\ profile.personal_info.github = None
    /\ Rescore([profile EXCEPT !.personal_info.github = Some(v)])

PopulateSummary(v) ==
    /\ pc = "score"
    /\ profile.personal_info.summary = None
    /\ Rescore([profile EXCEPT !.personal_info.summary = Some(v)])

PopulateGpa(i, g) ==
    /\ pc = "score"
    /\ i \in 1..Len(profile.education)
    /\ profile.education[i].gpa = None
    /\ Rescore([profile EXCEPT !.education[i].gpa = Some(g)])

AppendWorkExperience(w) ==
    /\ pc = "score"
    /\ Len(profile.work_experience) < MaxWork
    /\ Rescore([profile EXCEPT !.work_experience = Append(@, w)])

AppendEducation(e) ==
    /\ pc = "score"
    /\ Len(profile.education) < MaxEdu
    /\ Rescore([profile EXCEPT !.education = Append(@, e)])

AppendResponsibility(i) ==
    /\ pc = "score"
    /\ i \in 1..Len(profile.work_experience)
    /\ Len(profile.work_experience[i].responsibilities) + 1 \in RespLens
    /\ Rescore([profile EXCEPT !.work_experience[i].responsibilities = Append(@, "r")])

AppendAchievement(i) ==
    /\ pc = "score"
    /\ i \in 1..Len(profile.work_experience)
    /\ profile.work_experience[i].achievements = <<>>
    /\ Rescore([profile EXCEPT !.work_experience[i].achievements = Append(@, "a")])

AppendSkills(n) ==
    /\ pc = "score"
    /\ n > Len(profile.skills.technical)
    /\ Rescore([profile EXCEPT !.skills.technical = Repeat("s", n)])

InitScore ==
    /\ method = "none"
    /\ cv_text = <<>>
    /\ max_retries = DefaultMaxRetries
    /\ pc = "score"
    /\ attempt = 0
    /\ calls = 0
    /\ history = <<>>
    /\ extracted = None
    /\ outcome = Pending
    /\ profile = BaseProfile
    /\ confidence = CalculateConfidence(BaseProfile)
    /\ PairAtRest
    /\ SortAtRest
    /\ MatchAtRest
    /\ HttpAtRest
    /\ DbAtRest
    /\ EquivAtRest

NextScore ==
    \/ \E v \in {"", "x"} : PopulatePhone(v)
    \/ \E v \in {"x"} : PopulateCity(v)
    \/ \E v \in {"x"} : PopulateLinkedin(v)
    \/ \E v \in {"x"} : PopulateGithub(v)
    \/ \E v \in {"x"} : PopulateSummary(v)
    \/ \E i \in 1..MaxEdu, g \in {0, 4} : PopulateGpa(i, g)
    \/ \E w \in WorkEntries : AppendWorkExperience(w)
    \/ \E e \in EducationEntries : AppendEducation(e)
    \/ \E i \in 1..MaxWork : AppendResponsibility(i)
    \/ \E i \in 1..MaxWork : AppendAchievement(i)
    \/ \E n \in SkillLens : AppendSkills(n)

SpecScore == InitScore /\ [][NextScore]_vars

(***************************************************************************)
(* SpecPair: two calls on one CVExtractionChain instance, in any            *)
(* interleaving (two concurrent calls) and in sequence (two runs).  The     *)
(* chain holds self.max_retries and the upstream chain; the loop variable   *)
(* `attempt`, `result` and `e` are locals of each call.  The upstream is     *)
(* either free at every invocation or a deterministic stub, which answers  *)
(* a prompt it has seen before with the response it gave then.             *)
(***************************************************************************)
MaxPairRetries == 2

PairTexts == {<<" ">>, <<"a">>, <<"a", "a">>}
PairMethods == {"extract", "extract_with_confidence"}
PairOutcomes == UpstreamOutcomes

Other(i) == 3 - i

LoopStartCarried(c, i) == IF c[Other(i)].pc = "done" THEN c[Other(i)].attempt ELSE 0

LoopStartShared(c, i) ==
    IF c[Other(i)].pc \in {"extract", "extract_sync"} THEN c[Other(i)].attempt ELSE 0

\* `for attempt in range(self.max_retries)`: the first value of the call's own
\* loop variable.
LoopStart(c, i) == 0

\* The call state after the empty-input check of entry point m on text.
EnterCall(c, i, m, text) ==
    IF IsEmptyInput(text)
    THEN [NoCall EXCEPT !.method = m, !.cv_text = text, !.pc = "done",
                        !.outcome = EmptyInputError]
    ELSE [NoCall EXCEPT !.method = m, !.cv_text = text,
                        !.pc = IF m = "extract" THEN "extract" ELSE "extract_sync",
                        !.attempt = LoopStart(c, i)]

\* The value v of the loop goes to the caller or to extract_with_confidence.
ReturnFromLoop(st, v) ==
    IF st.method = "extract_with_confidence"
    THEN [st EXCEPT !.pc = "confidence", !.extracted = v]
    ELSE [st EXCEPT !.pc = "done", !.outcome = Returned(v)]

\* One iteration of the retry loop on call state st, with upstream outcome o.
AttemptStep(st, mr, o) ==
    LET st1 == [st EXCEPT !.calls = @ + 1, !.history = Append(@, o)] IN
    IF ~Failed(o)
    THEN ReturnFromLoop(st1, Some(o.value))
    ELSE LET e == Caught(o) IN
         IF IsLastAttempt(st.attempt, mr)
         THEN [st1 EXCEPT !.pc = "done",
                          !.outcome = IF IsParserException(e)
                                      THEN ParseFailureError(mr, e)
                                      ELSE ExtractionFailureError(mr, e)]
         ELSE [st1 EXCEPT !.attempt = @ + 1]

ScoredResultDegrading(st) ==
    LET c == CalculateConfidence(st.extracted[1]) IN
    Returned(<<st.extracted[1],
               Frac(IF c.num >= 10 * (st.calls - 1) THEN c.num - 10 * (st.calls - 1) ELSE 0,
                    c.den)>>)

\* confidence = self._calculate_confidence(profile); return profile, confidence
ScoredResult(st) == Returned(<<st.extracted[1], CalculateConfidence(st.extracted[1])>>)

\* The responses the upstream may give to the prompt built from text.
Responses(text) ==
    IF det /\ \E r \in memo : r[1] = text
    THEN {r[2] : r \in {q \in memo : q[1] = text}}
    ELSE PairOutcomes

PairCall(i, m, text) ==
    /\ pc = "pair"
    /\ call[i].pc = "idle"
    /\ call' = [call EXCEPT ![i] = EnterCall(call, i, m, text)]
    /\ UNCHANGED <<xvars, svars, det, memo, tvars, mvars, hvars, dvars, evars>>

PairAttempt(i, o) ==
    /\ pc = "pair"
    /\ call[i].pc \in {"extract", "extract_sync"}
    /\ call[i].attempt < max_retries
    /\ o \in Responses(call[i].cv_text)
    /\ call' = [call EXCEPT ![i] = AttemptStep(call[i], max_retries, o)]
    /\ memo' = IF det THEN memo \cup {<<call[i].cv_text, o>>} ELSE memo
    /\ UNCHANGED <<xvars, svars, det, tvars, mvars, hvars, dvars, evars>>

PairLoopExit(i) ==
    /\ pc = "pair"
    /\ call[i].pc \in {"extract", "extract_sync"}
    /\ ~(call[i].attempt < max_retries)
    /\ call' = [call EXCEPT ![i] = ReturnFromLoop(call[i], None)]
    /\ UNCHANGED <<xvars, svars, det, memo, tvars, mvars, hvars, dvars, evars>>

PairScore(i) ==
    /\ pc = "pair"
    /\ call[i].pc = "confidence"
    /\ call' = [call EXCEPT ![i] =
                  [call[i] EXCEPT !.pc = "done",
                     !.outcome =
                        IF call[i].extracted = None
                        THEN Raised("AttributeError",
                               <<"'NoneType' object has no attribute 'personal_info'">>)
                        ELSE ScoredResult(call[i])]]
    /\ UNCHANGED <<xvars, svars, det, memo, tvars, mvars, hvars, dvars, evars>>

InitPair ==
    /\ pc = "pair"
    /\ max_retries \in 0..MaxPairRetries
    /\ CallAtRest
    /\ ScoreAtRest
    /\ call = [i \in Calls |-> NoCall]
    /\ det \in BOOLEAN
    /\ memo = {}
    /\ SortAtRest
    /\ MatchAtRest
    /\ HttpAtRest
    /\ DbAtRest
    /\ EquivAtRest

NextPair ==
    \/ \E i \in Calls, m \in PairMethods, text \in PairTexts : PairCall(i, m, text)
    \/ \E i \in Calls, o \in PairOutcomes : PairAttempt(i, o)
    \/ \E i \in Calls : PairLoopExit(i)
    \/ \E i \in Calls : PairScore(i)

SpecPair == InitPair /\ [][NextPair]_vars

(***************************************************************************)
(* SpecSort: the field validator Profile.sort_by_date, run on the          *)
(* work_experience and education lists when a Profile is constructed.      *)
(* A string is its sequence of characters; entries carry the date fields   *)
(* the validator reads (a required str is always Some(s)).                 *)
(***************************************************************************)
MaxEntries == 2

CodePoint(c) ==
    CASE c = "-" -> 45
      [] c = "0" -> 48
      [] c = "1" -> 49
      [] c = "2" -> 50
      [] c = "9" -> 57

\* a < b for Python str: by code point, a proper prefix first.
RECURSIVE StrLess(_, _)
StrLess(a, b) ==
    IF b = <<>> THEN FALSE
    ELSE IF a = <<>> THEN TRUE
    ELSE IF Head(a) = Head(b) THEN StrLess(Tail(a), Tail(b))
    ELSE CodePoint(Head(a)) < CodePoint(Head(b))

Date2019 == <<"2", "0", "1", "9">>
Date2020 == <<"2", "0", "2", "0">>
Date2020Jan == <<"2", "0", "2", "0", "-", "0", "1">>

\* WorkExperience: start_date is a required str.
DatedWork(start) == [start_date |-> Some(start)]

\* Education: start_date and graduation_date are Optional[str], default None.
DatedEducation(start, graduation) == [start_date |-> start, graduation_date |-> graduation]

WorkInputs == {DatedWork(d) : d \in {Date2019, Date2020, Date2020Jan}}
EducationInputs ==
    {DatedEducation(a, b) : a \in {None, Some(Date2020)},
                            b \in {None, Some(Date2019), Some(Date2020)}}

ListsOf(S) == UNION {[1..n -> S] : n \in 0..MaxEntries}

\* `x.start_date or ''`
OrEmpty(o) == IF o = None \/ o[1] = <<>> THEN <<>> ELSE o[1]

\* hasattr(x, name)
HasAttr(x, name) == name \in DOMAIN x

RECURSIVE InsertByKeyAscending(_, _)
InsertByKeyAscending(x, s) ==
    IF s = <<>> THEN <<x>>
    ELSE IF StrLess(x[1], Head(s)[1]) THEN <<x>> \o s
    ELSE <<Head(s)>> \o InsertByKeyAscending(x, Tail(s))

\* x = <<key, item>> goes behind every pair of s whose key is not smaller.
RECURSIVE InsertByKey(_, _)
InsertByKey(x, s) ==
    IF s = <<>> THEN <<x>>
    ELSE IF StrLess(Head(s)[1], x[1]) THEN <<x>> \o s
    ELSE <<Head(s)>> \o InsertByKey(x, Tail(s))

\* sorted(..., reverse=True) on <<key, item>> pairs: descending by key, items
\* of equal key in their original order.
RECURSIVE SortedReverse(_)
SortedReverse(ps) ==
    IF ps = <<>> THEN <<>>
    ELSE InsertByKey(ps[Len(ps)], SortedReverse(SubSeq(ps, 1, Len(ps) - 1)))

Items(ps) == [i \in 1..Len(ps) |-> ps[i][2]]

\* Profile.sort_by_date(cls, v)
SortByDate(v) ==
    IF v = <<>> THEN v
    ELSE IF HasAttr(v[1], "start_date")
    THEN Items(SortedReverse([i \in 1..Len(v) |-> <<OrEmpty(v[i].start_date), v[i]>>]))
    ELSE IF HasAttr(v[1], "graduation_date")
    THEN Items(SortedReverse([i \in 1..Len(v) |-> <<OrEmpty(v[i].graduation_date), v[i]>>]))
    ELSE v

\* Profile(work_experience=w, education=e): each list goes through the validator.
ConstructProfile(w, e) ==
    /\ pc = "sort"
    /\ raw = None
    /\ raw' = Some([work_experience |-> w, education |-> e])
    /\ built' = Some([work_experience |-> SortByDate(w), education |-> SortByDate(e)])
    /\ UNCHANGED <<xvars, svars, pvars, mvars, hvars, dvars, evars>>

InitSort ==
    /\ pc = "sort"
    /\ max_retries = DefaultMaxRetries
    /\ CallAtRest
    /\ ScoreAtRest
    /\ PairAtRest
    /\ SortAtRest
    /\ MatchAtRest
    /\ HttpAtRest
    /\ DbAtRest
    /\ EquivAtRest

NextSort ==
    \E w \in ListsOf(WorkInputs), e \in ListsOf(EducationInputs) : ConstructProfile(w, e)

SpecSort == InitSort /\ [][NextSort]_vars

(***************************************************************************)
(* SpecMatch: the endpoint POST /match of backend/app/routers/jobs.py.     *)
(* Scores are floats with one decimal, held in tenths (87.5 is 875).       *)
(* Only requests that pass JobMatchRequest's validation reach the handler. *)
(***************************************************************************)
ProfileIds == {"user_1", "user_2"}
JobIdLists ==
    {None, Some(<<>>), Some(<<"job_mock_123">>), Some(<<"job_001">>),
     Some(<<"job_001", "job_002">>)}

\* min_score: Optional[float] = Field(0, ge=0, le=100)
MinScores == {None} \cup {Some(100 * k) : k \in 0..10} \cup {Some(875), Some(876)}

JobMatchRequests == [profile_id : ProfileIds, job_ids : JobIdLists, min_score : MinScores]

\* MatchResult(job_id="job_mock_123", score=87.5, ...)
MockMatch ==
    [job_id |-> "job_mock_123", score |-> 875,
     recommendation |-> "Highly Recommended", skill_matches |-> <<>>]

MatchJobsResponseFiltered(req) ==
    LET kept == IF req.min_score # None /\ MockMatch.score < req.min_score[1]
                THEN <<>> ELSE <<MockMatch>>
    IN [matches |-> kept, total_jobs |-> 1, matched_jobs |-> Len(kept)]

\* return JobMatchResponse(matches=[mock_match], total_jobs=1, matched_jobs=1)
MatchJobsResponse(req) == [matches |-> <<MockMatch>>, total_jobs |-> 1, matched_jobs |-> 1]

\* async def match_jobs(request: JobMatchRequest) -> JobMatchResponse
MatchJobs(req) ==
    /\ pc = "match"
    /\ request' = Some(req)
    /\ response' = Some(MatchJobsResponse(req))
    /\ UNCHANGED <<xvars, svars, pvars, tvars, hvars, dvars, evars>>

InitMatch ==
    /\ pc = "match"
    /\ max_retries = DefaultMaxRetries
    /\ CallAtRest
    /\ ScoreAtRest
    /\ PairAtRest
    /\ SortAtRest
    /\ MatchAtRest
    /\ HttpAtRest
    /\ DbAtRest
    /\ EquivAtRest

NextMatch == \E req \in JobMatchRequests : MatchJobs(req)

SpecMatch == InitMatch /\ [][NextMatch]_vars

(***************************************************************************)
(* SpecHttp: the HTTP surface of backend/main.py: the cv router under      *)
(* /api/cv, the jobs router under /api/jobs, GET / and GET /health.  A     *)
(* path is its sequence of segments; a request carries the one input its   *)
(* handler reads (the uploaded file's name, the JobMatchRequest body or    *)
(* the limit query parameter), or None.                                    *)
(***************************************************************************)
MaxRequests == 3

\* The routes in the order main.py registers them.
Routes ==
    << [method |-> "POST", path |-> <<"api", "cv", "parse">>, endpoint |-> "parse_cv"],
       [method |-> "GET", path |-> <<"api", "cv", "demo">>, endpoint |-> "get_demo_profile"],
       [method |-> "GET", path |-> <<"api", "cv", "{profile_id}">>, endpoint |-> "get_profile"],
       [method |-> "POST", path |-> <<"api", "jobs", "match">>, endpoint |-> "match_jobs"],
       [method |-> "GET", path |-> <<"api", "jobs", "demo">>, endpoint |-> "get_demo_jobs"],
       [method |-> "GET", path |-> <<"api", "jobs", "{job_id}">>, endpoint |-> "get_job"],
       [method |-> "GET", path |-> <<"api", "jobs", "">>, endpoint |-> "list_jobs"],
       [method |-> "GET", path |-> <<"">>, endpoint |-> "root"],
       [method |-> "GET", path |-> <<"health">>, endpoint |-> "health_check"] >>

PathParams == {"{profile_id}", "{job_id}"}

\* A path parameter matches one non-empty segment; any other segment matches itself.
PathMatches(pattern, path) ==
    /\ Len(pattern) = Len(path)
    /\ \A k \in 1..Len(path) :
          IF pattern[k] \in PathParams THEN path[k] # "" ELSE pattern[k] = path[k]

FullMatches(req) ==
    {k \in 1..Len(Routes) :
        Routes[k].method = req.method /\ PathMatches(Routes[k].path, req.path)}

PartialMatches(req) == {k \in 1..Len(Routes) : PathMatches(Routes[k].path, req.path)}

\* The first route that matches path and method serves the request; a path
\* that only matches under another method is 405, no match at all is 404.
Endpoint(req) ==
    IF FullMatches(req) # {}
    THEN Routes[CHOOSE k \in FullMatches(req) : \A j \in FullMatches(req) : k <= j].endpoint
    ELSE IF PartialMatches(req) # {} THEN "method_not_allowed" ELSE "not_found"

\* Depends(...) parameters of the handlers: there are none.
DependenciesWithLookup(endpoint) == IF endpoint = "get_profile" THEN {"get_db"} ELSE {}

Dependencies(endpoint) == {}

\* Statements the body of a handler runs on a database session.
Statements(endpoint) == 0

\* str.endswith
EndsWith(s, suffix) ==
    Len(s) >= Len(suffix) /\ SubSeq(s, Len(s) - Len(suffix) + 1, Len(s)) = suffix

PdfSuffix == <<".", "p", "d", "f">>

FileNames == { <<"c", "v", ".", "p", "d", "f">>, <<"c", "v", ".", "t", "x", "t">> }

\* mock_profile and demo_profile of routers/cv.py, by name and entry ids.
MockProfile ==
    [first_name |-> "John", last_name |-> "Doe",
     work_experience |-> <<"exp_1">>, education |-> <<"edu_1">>]

DemoProfile ==
    [first_name |-> "Maxim", last_name |-> "Gusev",
     work_experience |-> <<>>, education |-> <<"edu_eth">>]

\* demo_jobs of routers/jobs.py, by id.
DemoJobs == <<"job_demo_1", "job_demo_2", "job_demo_3">>

\* limit: int = Query(10, ge=1, le=100)
DefaultLimit == 10
LimitIsValid(limit) == 1 <= limit /\ limit <= 100

\* demo_jobs[:limit]
Prefix(s, n) == SubSeq(s, 1, IF n < Len(s) THEN n ELSE Len(s))

Ok(body) == [status |-> 200, body |-> body]
HttpError(status, detail) == [status |-> status, body |-> [detail |-> detail]]
ValidationError == HttpError(422, "validation error")

\* What each handler returns or raises for the input it reads.
Respond(endpoint, arg) ==
    CASE endpoint = "parse_cv" ->
           IF arg = None THEN ValidationError
           ELSE IF ~EndsWith(arg[1], PdfSuffix)
           THEN HttpError(400, "Only PDF files are supported")
           ELSE Ok(MockProfile)
      [] endpoint = "get_demo_profile" -> Ok(DemoProfile)
      [] endpoint = "get_profile" -> HttpError(404, "Profile not found")
      [] endpoint = "match_jobs" ->
           IF arg = None THEN ValidationError ELSE Ok(MatchJobsResponse(arg[1]))
      [] endpoint = "get_demo_jobs" ->
           LET limit == IF arg = None THEN DefaultLimit ELSE arg[1] IN
           IF LimitIsValid(limit) THEN Ok(Prefix(DemoJobs, limit)) ELSE ValidationError
      [] endpoint = "get_job" -> HttpError(404, "Job not found")
      [] endpoint = "list_jobs" -> Ok(<<>>)
      [] endpoint = "root" ->
           Ok([name |-> "JobSearch AI API", version |-> "1.0.0", docs |-> "/docs"])
      [] endpoint = "health_check" -> Ok([status |-> "healthy"])
      [] endpoint = "method_not_allowed" -> HttpError(405, "Method Not Allowed")
      [] endpoint = "not_found" -> HttpError(404, "Not Found")

HttpRequests ==
    { [method |-> "GET", path |-> <<"">>, arg |-> None],
      [method |-> "GET", path |-> <<"health">>, arg |-> None],
      [method |-> "GET", path |-> <<"missing">>, arg |-> None],
      [method |-> "GET", path |-> <<"api", "cv", "demo">>, arg |-> None],
      [method |-> "POST", path |-> <<"api", "cv", "demo">>, arg |-> None],
      [method |-> "GET", path |-> <<"api", "cv", "parse">>, arg |-> None],
      [method |-> "GET", path |-> <<"api", "cv", "user_1">>, arg |-> None],
      [method |-> "GET", path |-> <<"api", "jobs", "demo">>, arg |-> None],
      [method |-> "GET", path |-> <<"api", "jobs", "demo">>, arg |-> Some(0)],
      [method |-> "GET", path |-> <<"api", "jobs", "demo">>, arg |-> Some(2)],
      [method |-> "GET", path |-> <<"api", "jobs", "job_demo_1">>, arg |-> None],
      [method |-> "GET", path |-> <<"api", "jobs", "">>, arg |-> None],
      [method |-> "POST", path |-> <<"api", "jobs", "match">>,
       arg |-> Some([profile_id |-> "user_1", job_ids |-> None, min_score |-> Some(900)])] }
      \cup [method : {"POST"}, path : {<<"api", "cv", "parse">>},
            arg : {Some(f) : f \in FileNames}]

\* One request served from routing to response: the dependencies of the
\* handler are resolved, the handler runs, a get_db session that was opened
\* is committed when the handler returned.
Serve(req) ==
    /\ pc = "http"
    /\ Len(log) < MaxRequests
    /\ LET endpoint == Endpoint(req)
           res == Respond(endpoint, req.arg)
           opened == Cardinality(Dependencies(endpoint) \cap {"get_db"})
       IN /\ log' = Append(log, [request |-> req, response |-> res])
          /\ db' = [sessions |-> db.sessions + opened,
                    statements |-> db.statements + Statements(endpoint),
                    commits |-> db.commits + (IF res.status = 200 THEN opened ELSE 0)]
    /\ UNCHANGED <<xvars, svars, pvars, tvars, mvars, dvars, evars>>

\* The application as main.py builds it: no startup hook calls init_db.
InitHttp ==
    /\ pc = "http"
    /\ max_retries = DefaultMaxRetries
    /\ CallAtRest
    /\ ScoreAtRest
    /\ PairAtRest
    /\ SortAtRest
    /\ MatchAtRest
    /\ HttpAtRest
    /\ DbAtRest
    /\ EquivAtRest

NextHttp == \E req \in HttpRequests : Serve(req)

SpecHttp == InitHttp /\ [][NextHttp]_vars

(***************************************************************************)
(* SpecDb: the session dependency get_db of backend/app/db/database.py,    *)
(* an async generator.  Its consumer receives the session at the yield,    *)
(* may run statements on it, and then either resumes the generator (the    *)
(* consumer finished) or throws its exception into it at the yield.  Two   *)
(* uses run interleaved, each on its own session.  The trace of a use      *)
(* lists, in order, what happened to its session.                          *)
(***************************************************************************)
MaxStatements == 1

\* Exceptions by whether their class derives from Exception:
\* asyncio.CancelledError derives from BaseException only.
ConsumerExceptions ==
    { [type |-> "HTTPException", base |-> "Exception"],
      [type |-> "CancelledError", base |-> "BaseException"] }

CommitExceptions ==
    { [type |-> "IntegrityError", base |-> "Exception"],
      [type |-> "CancelledError", base |-> "BaseException"] }

ExceptClauseCatchesAll(e) == TRUE

\* `except Exception:`
ExceptClauseCatches(e) == e.base = "Exception"

\* Number of occurrences of event ev in trace t.
Count(t, ev) == Cardinality({k \in 1..Len(t) : t[k] = ev})

\* An exception raised inside the try block: the except clause takes it if it
\* catches it, otherwise only the finally clause runs.
Handle(u, e) ==
    [u EXCEPT !.pc = IF ExceptClauseCatches(e) THEN "except" ELSE "finally",
              !.exc = Some(e)]

\* async with AsyncSessionLocal() as session: try: yield session
GetDb(i) ==
    /\ pc = "db"
    /\ use[i].pc = "idle"
    /\ use' = [use EXCEPT ![i].pc = "yield", ![i].trace = <<"open">>]
    /\ UNCHANGED <<xvars, svars, pvars, tvars, mvars, hvars, evars>>

\* The consumer runs a statement on the session it was given.
ConsumerExecute(i) ==
    /\ pc = "db"
    /\ use[i].pc = "yield"
    /\ Count(use[i].trace, "execute") < MaxStatements
    /\ use' = [use EXCEPT ![i].trace = Append(@, "execute")]
    /\ UNCHANGED <<xvars, svars, pvars, tvars, mvars, hvars, evars>>

\* The consumer finished: the generator resumes after the yield.
ConsumerReturns(i) ==
    /\ pc = "db"
    /\ use[i].pc = "yield"
    /\ use' = [use EXCEPT ![i].pc = "commit", ![i].trace = Append(@, "returned")]
    /\ UNCHANGED <<xvars, svars, pvars, tvars, mvars, hvars, evars>>

\* The consumer raised e: e is thrown into the generator at the yield.
ConsumerRaises(i, e) ==
    /\ pc = "db"
    /\ use[i].pc = "yield"
    /\ use' = [use EXCEPT ![i] = Handle([@ EXCEPT !.trace = Append(@, "thrown")], e)]
    /\ UNCHANGED <<xvars, svars, pvars, tvars, mvars, hvars, evars>>

\* await session.commit(): it returns (r is None) or raises r[1].
Commit(i, r) ==
    /\ pc = "db"
    /\ use[i].pc = "commit"
    /\ use' = [use EXCEPT ![i] =
                 IF r = None
                 THEN [@ EXCEPT !.pc = "finally", !.trace = Append(@, "commit")]
                 ELSE Handle([@ EXCEPT !.trace = Append(@, "commit_raised")], r[1])]
    /\ UNCHANGED <<xvars, svars, pvars, tvars, mvars, hvars, evars>>

\* except Exception: await session.rollback(); raise
Rollback(i) ==
    /\ pc = "db"
    /\ use[i].pc = "except"
    /\ use' = [use EXCEPT ![i].pc = "finally", ![i].trace = Append(@, "rollback")]
    /\ UNCHANGED <<xvars, svars, pvars, tvars, mvars, hvars, evars>>

\* finally: await session.close()
Close(i) ==
    /\ pc = "db"
    /\ use[i].pc = "finally"
    /\ use' = [use EXCEPT ![i].pc = "exit", ![i].trace = Append(@, "close")]
    /\ UNCHANGED <<xvars, svars, pvars, tvars, mvars, hvars, evars>>

\* Leaving `async with ... as session` closes the session once more; the
\* generator then ends, or the exception in flight reaches the caller.
ExitContext(i) ==
    /\ pc = "db"
    /\ use[i].pc = "exit"
    /\ use' = [use EXCEPT ![i].pc = "done",
                          ![i].trace = Append(@, "close"),
                          ![i].result = IF use[i].exc = None
                                        THEN Returned(None)
                                        ELSE Raised(use[i].exc[1].type, <<>>)]
    /\ UNCHANGED <<xvars, svars, pvars, tvars, mvars, hvars, evars>>

InitDb ==
    /\ pc = "db"
    /\ max_retries = DefaultMaxRetries
    /\ CallAtRest
    /\ ScoreAtRest
    /\ PairAtRest
    /\ SortAtRest
    /\ MatchAtRest
    /\ HttpAtRest
    /\ DbAtRest
    /\ EquivAtRest

NextDb ==
    \E i \in Uses :
        \/ GetDb(i)
        \/ ConsumerExecute(i)
        \/ ConsumerReturns(i)
        \/ \E e \in ConsumerExceptions : ConsumerRaises(i, e)
        \/ \E r \in {None} \cup {Some(e) : e \in CommitExceptions} : Commit(i, r)
        \/ Rollback(i)
        \/ Close(i)
        \/ ExitContext(i)

SpecDb == InitDb /\ [][NextDb]_vars

(***************************************************************************)
(* SpecEquiv: a call of extract, then a call of extract_sync or of         *)
(* extract_profile_from_cv on the same text with the same max_retries, to  *)
(* which the upstream gives the responses it gave to the first call, in    *)
(* the same order (and any response after these).                          *)
(***************************************************************************)
\* The extract call has ended; its caller keeps what it saw of it.
KeepFirst ==
    /\ pc = "done"
    /\ first = None
    /\ method = "extract"
    /\ first' = Some([cv_text |-> cv_text, calls |-> calls,
                      history |-> history, outcome |-> outcome])
    /\ method' = "none"
    /\ cv_text' = <<>>
    /\ pc' = "idle"
    /\ attempt' = 0
    /\ calls' = 0
    /\ history' = <<>>
    /\ outcome' = Pending
    /\ UNCHANGED <<max_retries, extracted, svars, pvars, tvars, mvars, hvars, dvars>>

\* The upstream outcome o is the next one of the sequence the first call met.
NextResponse(o) ==
    /\ first # None
    /\ Len(history) < Len(first[1].history) => o = first[1].history[Len(history) + 1]

NextEquiv ==
    \/ \E text \in Texts : first = None /\ CallExtract(text)
    \/ \E o \in UpstreamOutcomes : ExtractAttempt(o)
    \/ ExtractLoopExit
    \/ KeepFirst
    \/ first # None /\ CallExtractSync(first[1].cv_text)
    \/ first # None /\ CallExtractProfileFromCv(first[1].cv_text, max_retries)
    \/ \E o \in UpstreamOutcomes : NextResponse(o) /\ ExtractSyncAttempt(o)
    \/ ExtractSyncLoopExit

SpecEquiv == Init /\ [][NextEquiv]_vars

(***************************************************************************)
(* Properties of one extraction call (Spec).                               *)
(***************************************************************************)
\* Every character of the text is whitespace (the empty text included).
IsBlank(text) == \A i \in 1..Len(text) : text[i] \in Whitespace

AllAttemptsFailed == history # <<>> /\ \A i \in 1..Len(history) : Failed(history[i])

LastOutcome == history[Len(history)]

\* The attempt ended in OutputParserException: the response did not fit the schema.
IsSchemaFailure(o) == o.kind = "raise" /\ o.exc = "OutputParserException"

\* The attempt ended in another exception raised by the upstream call.
IsCallFailure(o) == o.kind = "raise" /\ o.exc # "OutputParserException"

\* str(e) of the exception an attempt with outcome o ends in.
CauseMessage(o) == IF o.kind = "raise" THEN o.msg ELSE "Expected Profile object, got <class 'dict'>"

\* C1: a call of any of the four entry points on an empty or whitespace-only
\* text, with any max_retries, has ended with ValueError("CV text cannot be
\* empty") and has invoked the upstream chain zero times.
EmptyInputFailsFast ==
    (method # "none" /\ IsBlank(cv_text)) =>
        /\ pc = "done"
        /\ outcome = EmptyInputError
        /\ calls = 0
        /\ history = <<>>

EmptyInputWitness ==
    /\ method = "extract_profile_from_cv"
    /\ cv_text = <<" ", "\n">>
    /\ max_retries = 0
    /\ outcome = EmptyInputError
    /\ calls = 0

\* C2: a finished call of extract / extract_sync on a non-empty text, with any
\* max_retries, has either returned a Profile or raised an error; it never
\* returned without a Profile.
ExtractReturnsProfileOrRaises ==
    (pc = "done" /\ method \in {"extract", "extract_sync"} /\ ~IsBlank(cv_text)) =>
        \/ outcome.status = "raised"
        \/ /\ outcome.status = "returned"
           /\ outcome.value # None
           /\ outcome.value[1] \in SampleProfiles

\* C3: when every attempt of a call failed, the call raised a ValueError whose
\* text carries the failure kind and the message of the final attempt, and no
\* record was returned.
TerminalErrorNamesLastCause ==
    (pc = "done" /\ AllAttemptsFailed) =>
        /\ outcome.status = "raised"
        /\ outcome.type = "ValueError"
        /\ outcome.text =
             << IF IsSchemaFailure(LastOutcome)
                THEN "Failed to parse CV after " ELSE "CV extraction failed after ",
                max_retries, " attempts: ", CauseMessage(LastOutcome) >>

LastCauseWitness ==
    /\ pc = "done"
    /\ method = "extract"
    /\ history = << [kind |-> "raise", exc |-> "Exception", msg |-> "m1"],
                    [kind |-> "raise", exc |-> "OutputParserException", msg |-> "m2"] >>
    /\ outcome = Raised("ValueError", <<"Failed to parse CV after ", 2, " attempts: ", "m2">>)

\* C4: an attempt whose response fails schema validation is one more upstream
\* call and one unit of the retry budget; nothing is returned for it; the loop
\* goes on to the next attempt if one remains, and otherwise the call ends with
\* the parse-failure error.
SchemaFailureConsumesOneAttempt ==
    [][ (Len(history') = Len(history) + 1 /\ IsSchemaFailure(history'[Len(history')])) =>
          /\ calls' = calls + 1
          /\ Len(history') = attempt + 1
          /\ outcome'.status # "returned"
          /\ IF attempt + 1 < max_retries
             THEN attempt' = attempt + 1 /\ pc' = pc /\ outcome' = Pending
             ELSE /\ pc' = "done"
                  /\ outcome'.status = "raised"
                  /\ outcome'.text[1] = "Failed to parse CV after "
                  /\ calls' = max_retries ]_vars

SchemaFailureRetriedWitness ==
    /\ pc = "done"
    /\ Len(history) = 2
    /\ IsSchemaFailure(history[1])
    /\ history[2].kind = "profile"
    /\ outcome = Returned(Some(history[2].value))

\* C5 as stated: when every attempt failed and the terminal error is raised,
\* the first upstream call was followed by max_retries re-issued calls.
RetriesEqualMaxRetries ==
    (pc = "done" /\ AllAttemptsFailed /\ outcome.status = "raised") =>
        calls - 1 = max_retries

\* C5 as amended: when every attempt failed and the terminal error is raised,
\* max_retries upstream calls were made in all: the first one and
\* max_retries - 1 re-issued ones (one retry with the default of 2).
AttemptsEqualMaxRetries ==
    (pc = "done" /\ AllAttemptsFailed /\ outcome.status = "raised") =>
        /\ calls = max_retries
        /\ calls - 1 = max_retries - 1
        /\ (max_retries = DefaultMaxRetries => calls - 1 = 1)

DefaultRetriesWitness ==
    /\ pc = "done"
    /\ method = "extract_sync"
    /\ max_retries = DefaultMaxRetries
    /\ AllAttemptsFailed
    /\ outcome.status = "raised"
    /\ calls = 2

\* C6: the ValueError a call ends with tells the three failure kinds apart:
\* the empty-input text for a blank input and only for it, the "Failed to
\* parse" text exactly when the final attempt failed schema validation, and the
\* "CV extraction failed" text exactly when the final attempt failed otherwise.
FailureKindsDistinct ==
    (pc = "done" /\ outcome.status = "raised" /\ outcome.type = "ValueError") =>
        /\ (outcome.text[1] = "CV text cannot be empty") <=> IsBlank(cv_text)
        /\ (outcome.text[1] = "Failed to parse CV after ") <=>
              (history # <<>> /\ IsSchemaFailure(LastOutcome))
        /\ (outcome.text[1] = "CV extraction failed after ") <=>
              (history # <<>> /\ ~IsSchemaFailure(LastOutcome))
        /\ (history # <<>> /\ IsCallFailure(LastOutcome)) =>
              outcome.text[1] = "CV extraction failed after "

CallFailureKindWitness ==
    /\ pc = "done"
    /\ method = "extract_sync"
    /\ history = << [kind |-> "raise", exc |-> "OutputParserException", msg |-> "m1"],
                    [kind |-> "raise", exc |-> "Exception", msg |-> "m1"] >>
    /\ outcome.status = "raised"
    /\ outcome.text[1] = "CV extraction failed after "

\* C7: a call of extract / extract_sync that ends because the model output
\* could not be parsed into the Profile model raises OutputParserException.
ParseFailureRaisesOutputParserException ==
    (/\ pc = "done"
     /\ method \in {"extract", "extract_sync"}
     /\ history # <<>>
     /\ IsSchemaFailure(LastOutcome)) =>
        outcome.status = "raised" /\ outcome.type = "OutputParserException"

(***************************************************************************)
(* Properties of the completeness score (SpecScore).                       *)
(***************************************************************************)
\* C8: the points awarded to a Profile are between 0 and 100, the score is
\* points / 100 (the clamp to 1.0 leaves it unchanged) and lies in [0, 1].
ScoreInUnitInterval ==
    pc = "score" =>
        /\ 0 <= Score(profile) /\ Score(profile) <= 100
        /\ confidence = Frac(Score(profile), 100)
        /\ FracLeq(Frac(0, 1), confidence)
        /\ FracLeq(confidence, Frac(1, 1))

FullScoreWitness ==
    /\ pc = "score"
    /\ Len(profile.work_experience) = 2
    /\ Len(profile.skills.technical) = 10
    /\ confidence = Frac(100, 100)

\* C9: populating an empty optional field, or appending entries to
\* work_experience, education, responsibilities, achievements or
\* skills.technical, never lowers the score.
ScoreMonotone == [][pc = "score" => FracLeq(confidence, confidence')]_vars

ScoreRaisedWitness ==
    /\ pc = "score"
    /\ TruthyStr(profile.personal_info.linkedin)
    /\ TruthyStr(profile.personal_info.github)
    /\ profile.personal_info.phone = Some("")
    /\ profile.education = <<Education(Some(0))>>
    /\ confidence = Frac(30, 100)

Weight(populated, w) == IF populated THEN w ELSE 0

IdentityWeights(p) ==
    Weight(TRUE, 10)
  + Weight(TruthyStr(p.personal_info.phone), 5)
  + Weight(TruthyStr(p.personal_info.location.city), 5)
  + Weight(TruthyStr(p.personal_info.linkedin) \/ TruthyStr(p.personal_info.github), 5)
  + Weight(TruthyStr(p.personal_info.summary), 5)

EmploymentWeights(p) ==
    Weight(Len(p.work_experience) >= 1, 15)
  + Weight(Len(p.work_experience) >= 2, 5)
  + Weight(\E i \in DOMAIN p.work_experience :
               Len(p.work_experience[i].responsibilities) >= 3, 5)
  + Weight(\E i \in DOMAIN p.work_experience :
               Len(p.work_experience[i].achievements) >= 1, 5)

EducationWeights(p) ==
    Weight(Len(p.education) >= 1, 15)
  + Weight(\E i \in DOMAIN p.education : TruthyNum(p.education[i].gpa), 5)

SkillWeights(p) ==
    Weight(Len(p.skills.technical) >= 1, 10)
  + Weight(Len(p.skills.technical) >= 5, 5)
  + Weight(Len(p.skills.technical) >= 10, 5)

\* C10: the score is (identity + employment + education + skill points) / 100,
\* each bucket being the sum of the weights of its populated fields; email,
\* phone and city without linkedin, github and summary make 20 identity points.
ScoreIsSumOfWeights ==
    pc = "score" =>
        /\ confidence = Frac(IdentityWeights(profile) + EmploymentWeights(profile)
                               + EducationWeights(profile) + SkillWeights(profile), 100)
        /\ (/\ TruthyStr(profile.personal_info.phone)
            /\ TruthyStr(profile.personal_info.location.city)
            /\ ~TruthyStr(profile.personal_info.linkedin)
            /\ ~TruthyStr(profile.personal_info.github)
            /\ ~TruthyStr(profile.personal_info.summary)) =>
               confidence.num = 20 + EmploymentWeights(profile)
                                   + EducationWeights(profile) + SkillWeights(profile)

WorkedExampleWitness ==
    /\ pc = "score"
    /\ profile = MkProfile(Some("x"), Some("x"), None, None, None, <<>>, <<>>, <<>>)
    /\ confidence = Frac(20, 100)

\* C11: each bucket is capped: identity points at 30, employment points at 30,
\* education points at 20 and skill points at 20, whatever is populated.
BucketsCapped ==
    pc = "score" =>
        /\ PersonalInfoPoints(profile) <= 30
        /\ WorkExperiencePoints(profile) <= 30
        /\ EducationPoints(profile) <= 20
        /\ SkillsPoints(profile) <= 20

AllBucketsFullWitness ==
    /\ pc = "score"
    /\ PersonalInfoPoints(profile) = 30
    /\ WorkExperiencePoints(profile) = 30
    /\ EducationPoints(profile) = 20
    /\ SkillsPoints(profile) = 20
    /\ Len(profile.education) = MaxEdu

(***************************************************************************)
(* Properties of two calls on one chain (SpecPair).                        *)
(***************************************************************************)
BothDone == call[1].pc = "done" /\ call[2].pc = "done"

\* C12: against a deterministic stub, two runs of the same entry point on the
\* same input end with the same outcome (the same Profile, or the same error)
\* after the same number of upstream calls.
RunsAgree ==
    (/\ pc = "pair" /\ det /\ BothDone
     /\ call[1].method = call[2].method
     /\ call[1].cv_text = call[2].cv_text) =>
        /\ call[1].outcome = call[2].outcome
        /\ call[1].calls = call[2].calls

RunsAgreeWitness ==
    /\ pc = "pair" /\ det /\ BothDone
    /\ max_retries = 2
    /\ call[1].method = "extract" /\ call[2].method = "extract"
    /\ call[1].cv_text = <<"a">> /\ call[2].cv_text = <<"a">>
    /\ call[1].calls = 2 /\ call[2].calls = 2
    /\ call[1].outcome.status = "raised"
    /\ call[1].outcome = call[2].outcome

\* C13: two calls of extract_with_confidence that return equal Profiles return
\* equal confidence values, however many failed attempts came before the
\* successful one in each.
ConfidenceAttemptIndependent ==
    (/\ pc = "pair" /\ BothDone
     /\ call[1].method = "extract_with_confidence"
     /\ call[2].method = "extract_with_confidence"
     /\ call[1].outcome.status = "returned"
     /\ call[2].outcome.status = "returned"
     /\ call[1].outcome.value[1] = call[2].outcome.value[1]) =>
        call[1].outcome.value[2] = call[2].outcome.value[2]

ConfidenceAttemptWitness ==
    /\ pc = "pair" /\ BothDone
    /\ call[1].method = "extract_with_confidence"
    /\ call[2].method = "extract_with_confidence"
    /\ call[1].outcome = Returned(<<RichProfile, Frac(100, 100)>>)
    /\ call[2].outcome = Returned(<<RichProfile, Frac(100, 100)>>)
    /\ call[1].calls = 1
    /\ call[2].calls = 2

\* The outcome of a finished call as a function of its own entry point, input
\* and upstream responses, and of the chain's max_retries.
OwnOutcome(m, text, mr, h) ==
    IF IsBlank(text) THEN EmptyInputError
    ELSE IF h # <<>> /\ h[Len(h)].kind = "profile"
    THEN IF m = "extract_with_confidence"
         THEN Returned(<<h[Len(h)].value, CalculateConfidence(h[Len(h)].value)>>)
         ELSE Returned(Some(h[Len(h)].value))
    ELSE IF h # <<>>
    THEN Raised("ValueError",
                << IF IsSchemaFailure(h[Len(h)])
                   THEN "Failed to parse CV after " ELSE "CV extraction failed after ",
                   mr, " attempts: ", CauseMessage(h[Len(h)]) >>)
    ELSE IF m = "extract_with_confidence"
    THEN Raised("AttributeError", <<"'NoneType' object has no attribute 'personal_info'">>)
    ELSE Returned(None)

\* Call i has used exactly its own attempts, and has all of max_retries.
OwnBudget(i) ==
    /\ call[i].calls = Len(call[i].history)
    /\ call[i].pc \in {"extract", "extract_sync"} =>
          /\ call[i].attempt = Len(call[i].history)
          /\ \A k \in 1..Len(call[i].history) : Failed(call[i].history[k])
    /\ call[i].pc = "done" =>
          /\ call[i].outcome =
                OwnOutcome(call[i].method, call[i].cv_text, max_retries, call[i].history)
          /\ (call[i].history # <<>> /\ Failed(call[i].history[Len(call[i].history)])) =>
                Len(call[i].history) = max_retries

\* C14: in every interleaving of two calls on one chain, and in two calls one
\* after the other, each call counts its own attempts, a step of one call
\* leaves the other call as it was, and a call's outcome is determined by its
\* own input and its own upstream responses.
CallsIndependent ==
    /\ [](pc = "pair" => \A i \in Calls : OwnBudget(i))
    /\ [][\A i \in Calls : call'[i] # call[i] => call'[Other(i)] = call[Other(i)]]_vars

CallsInterleavedWitness ==
    /\ pc = "pair" /\ ~det
    /\ max_retries = 2
    /\ call[1].pc = "extract" /\ call[1].attempt = 1
    /\ call[2].pc = "done" /\ call[2].method = "extract"
    /\ Len(call[2].history) = 2
    /\ call[2].outcome.status = "raised"

(***************************************************************************)
(* Properties of extract_with_confidence (Spec).                           *)
(***************************************************************************)
\* C15: a finished call of extract_with_confidence on a non-empty text, with
\* any max_retries, has returned (Profile, confidence) with the Profile of
\* extract_sync and a confidence in [0, 1], or has raised the error of
\* extract_sync; it has raised no other error.
WithConfidenceReturnsPairOrPropagates ==
    (pc = "done" /\ method = "extract_with_confidence" /\ ~IsBlank(cv_text)) =>
        \/ /\ outcome.status = "returned"
           /\ Len(outcome.value) = 2
           /\ history # <<>>
           /\ LastOutcome.kind = "profile"
           /\ outcome.value[1] = LastOutcome.value
           /\ FracLeq(Frac(0, 1), outcome.value[2])
           /\ FracLeq(outcome.value[2], Frac(1, 1))
        \/ /\ outcome.status = "raised"
           /\ outcome.type = "ValueError"
           /\ outcome.text[1] \in {"Failed to parse CV after ", "CV extraction failed after "}

(***************************************************************************)
(* Properties of a constructed Profile (SpecSort).                         *)
(***************************************************************************)
\* a >= b in string order.
StrGeq(a, b) == ~StrLess(a, b)

\* C16: the work_experience list of a constructed Profile is ordered most
\* recent first: each entry's start_date is >= the next entry's, in string
\* order, whatever the order of the input list.
WorkExperienceSorted ==
    (pc = "sort" /\ built # None) =>
        LET w == built[1].work_experience IN
        /\ Len(w) = Len(raw[1].work_experience)
        /\ \A i \in 1..(Len(w) - 1) : StrGeq(w[i].start_date[1], w[i + 1].start_date[1])

WorkExperienceSortedWitness ==
    /\ pc = "sort"
    /\ raw = Some([work_experience |-> <<DatedWork(Date2019), DatedWork(Date2020Jan)>>,
                   education |-> <<>>])
    /\ built = Some([work_experience |-> <<DatedWork(Date2020Jan), DatedWork(Date2019)>>,
                     education |-> <<>>])

\* C17: the education list of a constructed Profile is ordered most recent
\* first by graduation_date (a missing date counting as ''), also when the
\* entries carry a graduation_date and no start_date.
EducationSortedByGraduation ==
    (pc = "sort" /\ built # None) =>
        LET ed == built[1].education IN
        \A i \in 1..(Len(ed) - 1) :
            StrGeq(OrEmpty(ed[i].graduation_date), OrEmpty(ed[i + 1].graduation_date))

Threshold(req) == IF req.min_score = None THEN 0 ELSE req.min_score[1]

\* C19: matched_jobs is the number of analysed jobs whose score meets the
\* request's min_score, and every match returned has score >= min_score.
MatchesMeetMinScore ==
    (pc = "match" /\ response # None) =>
        LET ms == response[1].matches IN
        /\ \A i \in 1..Len(ms) : ms[i].score >= Threshold(request[1])
        /\ response[1].matched_jobs =
              Cardinality({i \in 1..Len(ms) : ms[i].score >= Threshold(request[1])})

\* C20: when the request gives a non-empty job_ids list, every match returned
\* has a job_id of that list.
MatchesWithinJobIds ==
    (/\ pc = "match" /\ response # None
     /\ request[1].job_ids # None
     /\ request[1].job_ids[1] # <<>>) =>
        \A i \in 1..Len(response[1].matches) :
            \E k \in 1..Len(request[1].job_ids[1]) :
                request[1].job_ids[1][k] = response[1].matches[i].job_id


(***************************************************************************)
(* Properties of the retry loop (SpecLive, Spec).                          *)
(***************************************************************************)
\* The call is inside extract / extract_sync or one of the wrappers.
InCall == pc \in {"extract", "extract_sync", "confidence"}

\* C22: a call invokes the upstream chain at most max_retries times (never, if
\* max_retries is below 1); when every attempt failed and max_retries >= 1 it
\* made exactly max_retries calls and raised; the error is raised by the step
\* that makes the max_retries-th failed attempt, so no call is still running
\* with max_retries failures behind it; and a call that has started ends.
MaxRetriesBoundsAttempts ==
    /\ [](/\ calls = Len(history)
          /\ (calls <= max_retries \/ calls = 0)
          /\ (InCall /\ history # <<>>) =>
                \/ Len(history) < max_retries
                \/ history[Len(history)].kind = "profile"
          /\ (/\ pc = "done" /\ max_retries >= 1 /\ history # <<>>
              /\ \A k \in 1..Len(history) : history[k].kind # "profile") =>
                /\ calls = max_retries
                /\ outcome.status = "raised"
                /\ outcome.text[2] = max_retries)
    /\ (InCall ~> pc = "done")

MaxRetriesWitness ==
    /\ pc = "done"
    /\ method = "extract"
    /\ max_retries = 3
    /\ calls = 3
    /\ \A k \in 1..3 : history[k].kind # "profile"
    /\ outcome.status = "raised"

\* The attempts of the call that returned a Profile.
Successes == {k \in 1..Len(history) : history[k].kind = "profile"}

\* C23: a call goes on only while its attempts fail: an attempt that returned
\* a Profile is the last upstream call of the invocation, the call returns that
\* Profile (extract_with_confidence pairs it with its score), and nothing is
\* called after it, however many attempts failed before.
ReturnsFirstSuccess ==
    /\ [](/\ Successes \subseteq {Len(history)}
          /\ Successes # {} =>
                /\ ~(pc \in {"extract", "extract_sync"})
                /\ method \in {"extract", "extract_sync", "extract_profile_from_cv"} =>
                      /\ pc = "done"
                      /\ outcome = Returned(Some(history[Len(history)].value))
                /\ method = "extract_with_confidence" =>
                      \/ pc = "confidence" /\ extracted = Some(history[Len(history)].value)
                      \/ pc = "done" /\ outcome.status = "returned"
                                     /\ outcome.value[1] = history[Len(history)].value)
    /\ [][Successes # {} => (calls' = calls /\ history' = history)]_vars

FirstSuccessWitness ==
    /\ pc = "done"
    /\ method = "extract_sync"
    /\ Len(history) = 3
    /\ history[1].kind = "raise"
    /\ history[2].kind = "object"
    /\ history[3] = [kind |-> "profile", value |-> RichProfile]
    /\ outcome = Returned(Some(RichProfile))
    /\ calls = 3

\* C24: an attempt whose result is not a Profile is one more upstream call and
\* one unit of the retry budget; the object is not returned; the loop goes on
\* to the next attempt if one remains, and otherwise the call ends with the
\* "CV extraction failed after N attempts" error, the one an upstream-call
\* failure ends with, and not with the parse-failure error.
NonProfileResultIsFailedAttempt ==
    /\ [][ (Len(history') = Len(history) + 1 /\ history'[Len(history')].kind = "object") =>
             /\ calls' = calls + 1
             /\ Len(history') = attempt + 1
             /\ outcome'.status # "returned"
             /\ extracted' = extracted
             /\ IF attempt + 1 < max_retries
                THEN attempt' = attempt + 1 /\ pc' = pc /\ outcome' = Pending
                ELSE /\ pc' = "done"
                     /\ outcome' =
                          Raised("ValueError",
                                 <<"CV extraction failed after ", max_retries, " attempts: ",
                                   "Expected Profile object, got <class 'dict'>">>)
                     /\ outcome'.text[1] # "Failed to parse CV after " ]_vars
    /\ []((outcome.status = "returned" /\ outcome.value # None) =>
             \/ outcome.value[1] \in SampleProfiles)

NonProfileWitness ==
    /\ pc = "done"
    /\ method = "extract"
    /\ max_retries = 2
    /\ history = << [kind |-> "object", type |-> "dict"], [kind |-> "object", type |-> "dict"] >>
    /\ outcome.text[1] = "CV extraction failed after "
    /\ calls = 2

(***************************************************************************)
(* Properties of the two loops side by side (SpecEquiv).                   *)
(***************************************************************************)
\* C25: a call of extract_sync, and a call of extract_profile_from_cv with
\* the chain's max_retries, given the text and the upstream outcomes of a
\* finished call of extract, makes the same number of upstream calls,
\* consumes the same outcomes and ends as that call did: with the same
\* Profile, or an error of the same type and text.
ExtractAndSyncEquivalent ==
    (pc = "done" /\ first # None) =>
        /\ cv_text = first[1].cv_text
        /\ calls = first[1].calls
        /\ history = first[1].history
        /\ outcome = first[1].outcome

ExtractAndSyncWitness ==
    /\ pc = "done"
    /\ first # None
    /\ method = "extract_profile_from_cv"
    /\ max_retries = 3
    /\ Len(history) = 2
    /\ history[1].kind = "raise"
    /\ history[2] = [kind |-> "profile", value |-> RichProfile]
    /\ outcome = Returned(Some(RichProfile))
    /\ first[1].outcome = Returned(Some(RichProfile))
    /\ first[1].calls = 2

(***************************************************************************)
(* Properties of the HTTP surface (SpecHttp).                              *)
(***************************************************************************)
\* C21: after every sequence of requests to the cv and jobs routers, / and
\* /health, no database session has been opened, no statement executed and
\* nothing committed, and a request has received the same response at every
\* position of the sequence, whatever requests were served before it.
EndpointsStateless ==
    pc = "http" =>
        /\ db = NoDatabaseUse
        /\ \A i, j \in 1..Len(log) :
              log[i].request = log[j].request => log[i].response = log[j].response

EndpointsStatelessWitness ==
    /\ pc = "http"
    /\ Len(log) = 3
    /\ log[1].request = log[3].request
    /\ log[1].request.path = <<"api", "jobs", "demo">>
    /\ log[1].response = Ok(<<"job_demo_1", "job_demo_2">>)
    /\ log[2].request.method = "POST"
    /\ log[2].response = Ok(MockProfile)
    /\ db = NoDatabaseUse

(***************************************************************************)
(* Properties of get_db (SpecDb).                                          *)
(***************************************************************************)
\* Positions of event ev in trace t.
Positions(t, ev) == {k \in 1..Len(t) : t[k] = ev}

\* Every close of the session comes after every commit and rollback of it.
ClosedLast(t) ==
    \A c \in Positions(t, "close") :
        \A k \in Positions(t, "commit") \cup Positions(t, "commit_raised")
                   \cup Positions(t, "rollback") : k < c

\* No commit takes effect after a rollback.
NoCommitAfterRollback(t) ==
    \A r \in Positions(t, "rollback") : \A k \in Positions(t, "commit") : k < r

\* The use of get_db ended with the exception that was raised in it.
Reraised(u) == u.result = Raised(u.exc[1].type, <<>>)

\* C26 as stated: in a finished use of get_db, a consumer that finished and a
\* commit that returned give exactly one commit and no rollback; whenever the
\* consumer or the commit raised, the session was rolled back, the exception
\* reached the caller and no commit took effect after the rollback; and the
\* session was closed, after the commit or rollback.
RollbackOnEveryRaise ==
    pc = "db" =>
        \A i \in Uses :
            LET u == use[i]  t == u.trace IN
            /\ ClosedLast(t)
            /\ u.pc = "done" =>
                  /\ Count(t, "close") >= 1
                  /\ Count(t, "returned") = 1 =>
                        Count(t, "commit") + Count(t, "commit_raised") = 1
                  /\ (Count(t, "returned") = 1 /\ Count(t, "commit_raised") = 0) =>
                        /\ Count(t, "commit") = 1
                        /\ Count(t, "rollback") = 0
                        /\ u.result = Returned(None)
                  /\ (Count(t, "thrown") = 1 \/ Count(t, "commit_raised") = 1) =>
                        /\ Count(t, "rollback") = 1
                        /\ Reraised(u)
                        /\ NoCommitAfterRollback(t)

\* C26 as amended: as above, with the rollback only for an exception that
\* derives from Exception; when the consumer or the commit raises an exception
\* that derives from BaseException only (asyncio.CancelledError), the session
\* is neither committed nor rolled back by get_db: the exception reaches the
\* caller and the session is closed.
RollbackOnException ==
    pc = "db" =>
        \A i \in Uses :
            LET u == use[i]  t == u.trace IN
            /\ ClosedLast(t)
            /\ u.pc = "done" =>
                  /\ Count(t, "close") >= 1
                  /\ Count(t, "returned") = 1 =>
                        Count(t, "commit") + Count(t, "commit_raised") = 1
                  /\ (Count(t, "returned") = 1 /\ Count(t, "commit_raised") = 0) =>
                        /\ Count(t, "commit") = 1
                        /\ Count(t, "rollback") = 0
                        /\ u.result = Returned(None)
                  /\ (Count(t, "thrown") = 1 \/ Count(t, "commit_raised") = 1) =>
                        /\ Count(t, "commit") = 0
                        /\ Reraised(u)
                        /\ NoCommitAfterRollback(t)
                        /\ IF u.exc[1].base = "Exception"
                           THEN Count(t, "rollback") = 1
                           ELSE Count(t, "rollback") = 0

RollbackOnExceptionWitness ==
    /\ pc = "db"
    /\ use[1].pc = "done"
    /\ use[1].trace = <<"open", "execute", "returned", "commit_raised", "rollback",
                        "close", "close">>
    /\ use[1].result = Raised("IntegrityError", <<>>)
    /\ use[2].pc = "done"
    /\ use[2].trace = <<"open", "thrown", "close", "close">>
    /\ use[2].result = Raised("CancelledError", <<>>)

====
